---- MODULE Spec2Model ----
(***************************************************************************)
(* The path planners of lib/path: AStar (astar.rs) and Dijkstra            *)
(* (dijkstra.rs), driven through the Optimizer trait (mod.rs) by a grid    *)
(* model in the style of BenchModel (benches/astar.rs).                    *)
(*                                                                         *)
(* The frontier is a radix_heap::RadixHeapMap: a monotone bucket queue     *)
(* with the fields top, initial and buckets.  It pops its greatest key,    *)
(* top() is the key the buckets are currently keyed against (None until    *)
(* the first pop after new()/clear()), and push asserts key <= top.        *)
(* The maps are FnvHashMaps; for the identifiers a bounded search          *)
(* allocates the FNV hash of the integer id is injective, so a key is      *)
(* found when its id hashes alike and the key type's Eq agrees.            *)
(***************************************************************************)
EXTENDS Integers, Sequences, FiniteSets, TLC

VARIABLES
    algo,        \* which engine this run constructs: "astar" or "dijkstra"
    model,       \* the Model instance: walls, step cost, rough cell, heuristic table
    start,       \* the start state handed to every call
    goal,        \* the goal state handed to every call
    queue,       \* engine field queue (RadixHeapMap)
    parent_map,  \* engine field parent_map
    grid,        \* engine field grid (best-cost map)
    id_counter,  \* engine field id_counter
    panicked,    \* the call in progress aborted on the heap's assertion
    call,        \* the last operation called
    result,      \* its PathResult
    popped,      \* the nodes that call popped, in order
    trace,       \* what that call did, in order: seed, pop and child events
    given,       \* the identifiers given to nodes since construction
    calls,       \* search calls since construction (saturating)
    stepping,    \* every search call so far was next_trajectory and none returned Final before the last
    clears,      \* number of clear calls so far
    twin,        \* a brand-new engine given the same calls since the last clear
    twinResult,  \* the twin's last PathResult
    peer,        \* next to a Dijkstra engine: an AStar engine given the same calls
    peerResult,  \* the peer's last PathResult
    input,       \* the arguments of a library function about to be called
    output       \* what that function returned

vars == <<algo, model, start, goal, queue, parent_map, grid, id_counter,
          panicked, call, result, popped, trace, given, calls, stepping, clears,
          twin, twinResult, peer, peerResult, input, output>>

(***************************************************************************)
(* Bounds                                                                  *)
(***************************************************************************)
MaxStepCost == 1
MaxHeuristic == 1
MaxClears == 1
CallCap == 2
\* the heap keeps KeyBits + 1 buckets: every key of a run is below 2^KeyBits
KeyBits == 4

(***************************************************************************)
(* The model: a square tile grid of side m.side, Cardinal sampler; a cell  *)
(* is x + side * y                                                         *)
(***************************************************************************)
Cells == {0, 1, 2, 3}
NoState == -1
NoCell == -1

XOf(m, c) == c % m.side
YOf(m, c) == c \div m.side

Controls == {"North", "South", "East", "West"}
DefaultControl == "None"

\* Direction::step_from
step_from(control, x, y) ==
    CASE control = "North" -> <<x, y + 1>>
      [] control = "South" -> <<x, y - 1>>
      [] control = "East"  -> <<x + 1, y>>
      [] control = "West"  -> <<x - 1, y>>

\* BenchModel::is_blocked: walls and everything off the map
is_blocked(m, pos) ==
    \/ pos[1] < 0 \/ pos[1] >= m.side
    \/ pos[2] < 0 \/ pos[2] >= m.side
    \/ (pos[1] + m.side * pos[2]) \in m.walls

\* Model::integrate
integrate(m, previous, control) ==
    LET next == step_from(control, XOf(m, previous), YOf(m, previous))
    IN  IF ~is_blocked(m, next) THEN next[1] + m.side * next[2] ELSE NoState

\* Model::cost(current, control, next): a step cost plus a surcharge for
\* entering the rough cell, so the cost depends on the direction of travel
cost(m, current, control, next) ==
    m.step + (IF next = m.rough THEN 1 ELSE 0)

\* Model::converge
converge(current, g) == current = g

\* HeuristicModel::heuristic
heuristic(m, current, g) == m.heur[current]

\* State::grid_position
grid_position(s) == s

\* Sampler::sample (Cardinal)
sample == <<"North", "South", "East", "West">>

\* The models searched: a 2x2 grid where every step costs step and the
\* heuristic estimates a cell at nothing or at MaxHeuristic.  A walled cell
\* is never a child state, so neither its surcharge nor its heuristic is ever
\* read: both are fixed there.
Models ==
    {m \in [walls : SUBSET {1, 2, 3},
            step  : 0..MaxStepCost,
            rough : {NoCell, 1, 2, 3},
            heur  : [Cells -> {0, MaxHeuristic}],
            side  : {2}] :
        /\ m.rough \notin m.walls
        /\ \A c \in m.walls : m.heur[c] = 0}

ZeroHeur == [c \in Cells |-> 0]

(***************************************************************************)
(* radix_heap::RadixHeapMap                                                *)
(***************************************************************************)
NoKey == -1
NoItem == <<>>

\* Radix::radix_distance for unsigned integers: the bit length of a xor b
RECURSIVE radix_distance(_, _)
radix_distance(a, b) ==
    IF a = b THEN 0 ELSE 1 + radix_distance(a \div 2, b \div 2)

\* Ord on the key type: Reverse<Cost> for AStar (rev), Cost for Dijkstra
KeyLe(rev, a, b) == IF rev THEN b <= a ELSE a <= b

NewHeap == [top |-> NoKey, initial |-> <<>>, buckets |-> [i \in 0..KeyBits |-> <<>>]]

HeapLen(h) ==
    LET RECURSIVE Sum(_)
        Sum(i) == IF i > KeyBits THEN 0 ELSE Len(h.buckets[i]) + Sum(i + 1)
    IN  Len(h.initial) + Sum(0)

HeapIsEmpty(h) == HeapLen(h) = 0

\* every (key, value) the heap holds
HeapItems(h) ==
    {h.initial[i] : i \in DOMAIN h.initial}
        \cup UNION {{h.buckets[b][i] : i \in DOMAIN h.buckets[b]} : b \in 0..KeyBits}

\* push asserts key <= top once a top is set
PushPanics(h, rev, key) == h.top # NoKey /\ ~KeyLe(rev, key, h.top)

HeapPush(h, rev, key, value) ==
    IF h.top = NoKey
    THEN [h EXCEPT !.initial = Append(@, <<key, value>>)]
    ELSE [h EXCEPT !.buckets[radix_distance(key, h.top)] = Append(@, <<key, value>>)]

MaxKey(rev, items) ==
    CHOOSE k \in {items[i][1] : i \in DOMAIN items} :
        \A i \in DOMAIN items : KeyLe(rev, items[i][1], k)

RECURSIVE Repush(_, _, _)
Repush(h, items, i) ==
    IF i > Len(items) THEN h
    ELSE Repush([h EXCEPT !.buckets[radix_distance(items[i][1], h.top)] = Append(@, items[i])],
                items, i + 1)

\* constrain: re-key the buckets against the greatest key of the first non-empty bucket
HeapConstrain(h, rev) ==
    IF h.top # NoKey
    THEN LET nonEmpty == {i \in 0..KeyBits : h.buckets[i] # <<>>}
         IN  IF nonEmpty = {} THEN h
             ELSE LET index == CHOOSE i \in nonEmpty : \A j \in nonEmpty : i <= j
                      items == h.buckets[index]
                  IN  IF index = 0 THEN h
                      ELSE Repush([h EXCEPT !.buckets[index] = <<>>, !.top = MaxKey(rev, items)],
                                  items, 1)
    ELSE IF h.initial = <<>> THEN h
         ELSE Repush([h EXCEPT !.initial = <<>>, !.top = MaxKey(rev, h.initial)], h.initial, 1)

\* pop: the last entry of bucket 0, constraining first when bucket 0 is empty
HeapPop(h, rev) ==
    LET h1 == IF h.buckets[0] # <<>> THEN h ELSE HeapConstrain(h, rev)
        b0 == h1.buckets[0]
    IN  IF b0 = <<>>
        THEN [heap |-> h1, item |-> NoItem]
        ELSE [heap |-> [h1 EXCEPT !.buckets[0] = SubSeq(b0, 1, Len(b0) - 1)],
              item |-> b0[Len(b0)]]

\* clear
HeapClear(h) == NewHeap

(***************************************************************************)
(* Results (PathResult, Trajectory)                                        *)
(***************************************************************************)
NoNode == <<>>
NoResult == [kind |-> "None", cost |-> 0, trajectory |-> <<>>]
Unreachable == [kind |-> "Unreachable", cost |-> 0, trajectory |-> <<>>]
Panic == [kind |-> "Panic", cost |-> 0, trajectory |-> <<>>]
Final(t) == [kind |-> "Final", cost |-> t.cost, trajectory |-> t.trajectory]
Intermediate(t) == [kind |-> "Intermediate", cost |-> t.cost, trajectory |-> t.trajectory]

\* Vec::reverse
RECURSIVE Reverse(_)
Reverse(s) == IF s = <<>> THEN <<>> ELSE Append(Reverse(Tail(s)), Head(s))

(***************************************************************************)
(* The log of one call: the engine record carries, next to the fields of   *)
(* the struct, the flag panicked and the events of the call in progress    *)
(***************************************************************************)
\* the nodes a heap holds
HeapNodes(h) == {it[2] : it \in HeapItems(h)}

\* "seed": the root was created and pushed; "pop": node was popped from a
\* frontier holding the nodes frontier; "child": node was created in step,
\* with the outcome "rejected" (continue), "pushed" or "panic" (push aborted).
\* key is the key the node was queued or popped with.
\* A call of Model::init would be an "init" event: no engine code makes one
Event(op, node, key, frontier, outcome) ==
    [op |-> op, node |-> node, key |-> key, frontier |-> frontier, outcome |-> outcome]

Log(e, op, node, key, frontier, outcome) ==
    [e EXCEPT !.trace = Append(@, Event(op, node, key, frontier, outcome))]

(***************************************************************************)
(* FnvHashMap<Id, Node>: keyed by the hash of the id, matched by Eq        *)
(***************************************************************************)
\* one bucket per hash; get returns the value of the entry whose key hashes
\* like k and compares equal to it (eq is the outcome of the key type's Eq)
MapGet(pm, k, eq) ==
    IF k.id \in DOMAIN pm /\ eq THEN pm[k.id].value ELSE NoNode

\* insert keeps the stored key of a matching entry and replaces its value
MapInsert(pm, k, v, eq) ==
    IF k.id \in DOMAIN pm /\ eq
    THEN [pm EXCEPT ![k.id].value = v]
    ELSE (k.id :> [key |-> k, value |-> v]) @@ pm

(***************************************************************************)
(* AStar (astar.rs)                                                        *)
(***************************************************************************)
AStar_Id_new(id, f, g) == [id |-> id, f |-> f, g |-> g]

\* impl PartialEq for Id: compares the estimated cost f
AStar_Id_eq(a, b) == a.f = b.f

\* parent_map.get / parent_map.insert with Id's Hash (id) and Eq (f)
AStar_parent_get(pm, k) ==
    MapGet(pm, k, k.id \in DOMAIN pm /\ AStar_Id_eq(pm[k.id].key, k))

\* variant: Hash follows Eq, so an entry of equal f anywhere in the map is overwritten
AStar_parent_insert_by_f(pm, k, v) ==
    IF \E j \in DOMAIN pm : AStar_Id_eq(pm[j].key, k)
    THEN [pm EXCEPT ![CHOOSE j \in DOMAIN pm : AStar_Id_eq(pm[j].key, k)].value = v]
    ELSE (k.id :> [key |-> k, value |-> v]) @@ pm

AStar_parent_insert(pm, k, v) ==
    MapInsert(pm, k, v, k.id \in DOMAIN pm /\ AStar_Id_eq(pm[k.id].key, k))

AStar_new == [queue |-> NewHeap, parent_map |-> <<>>, grid |-> <<>>,
              id_counter |-> 0, panicked |-> FALSE, trace |-> <<>>]

\* variant: the best-cost map is not cleared
AStar_clear_keeps_grid(e) ==
    [e EXCEPT !.queue = HeapClear(e.queue), !.parent_map = <<>>]

\* variant: the queue is cleared by draining, so top stays set
AStar_clear_keeps_top(e) ==
    [e EXCEPT !.queue = [NewHeap EXCEPT !.top = e.queue.top], !.parent_map = <<>>, !.grid = <<>>]

AStar_clear(e) ==
    [e EXCEPT !.queue = HeapClear(e.queue), !.parent_map = <<>>, !.grid = <<>>]

\* inspect_queue: the (state, control) of every queued node
AStar_inspect_queue(e) ==
    {<<it[2].state, it[2].control>> : it \in HeapItems(e.queue)}

\* inspect_discovered: the keys of the best-cost map
AStar_inspect_discovered(e) == DOMAIN e.grid

\* the node step makes of the state child_state that control leads to from
\* current, under the identifier counter
AStar_child(counter, current, control, child_state) ==
    [id |-> AStar_Id_new(counter,
                current.id.g + cost(model, current.state, control, child_state)
                    + heuristic(model, child_state, goal),
                current.id.g + cost(model, current.state, control, child_state)),
     state |-> child_state, control |-> control]

\* variant: the child is queued under its accumulated cost g instead of f
AStar_push_child_key_g(e, child) ==
    IF PushPanics(e.queue, TRUE, child.id.g)
    THEN Log([e EXCEPT !.panicked = TRUE], "child", child, child.id.g, {}, "panic")
    ELSE Log([e EXCEPT !.queue = HeapPush(@, TRUE, child.id.g, child)],
             "child", child, child.id.g, {}, "pushed")

\* queue.push(child.id.f, child)
AStar_push_child(e, child) ==
    IF PushPanics(e.queue, TRUE, child.id.f)
    THEN Log([e EXCEPT !.panicked = TRUE], "child", child, child.id.f, {}, "panic")
    ELSE Log([e EXCEPT !.queue = HeapPush(@, TRUE, child.id.f, child)],
             "child", child, child.id.f, {}, "pushed")

\* variant: a strictly better candidate is queued but the recorded best is kept
AStar_update_keeps_best(e, current, child) ==
    IF grid_position(child.state) \in DOMAIN e.grid
       /\ e.grid[grid_position(child.state)].g <= child.id.g
    THEN Log(e, "child", child, child.id.f, {}, "rejected")
    ELSE AStar_push_child(
             [e EXCEPT !.grid = @ @@ (grid_position(child.state) :> child.id),
                       !.parent_map = AStar_parent_insert(@, child.id, current)], child)

\* variant: the parent is recorded before the candidate is compared with the
\* best cost of its position
AStar_update_parent_first(e, current, child) ==
    IF grid_position(child.state) \in DOMAIN e.grid
       /\ e.grid[grid_position(child.state)].g <= child.id.g
    THEN Log([e EXCEPT !.parent_map = AStar_parent_insert(@, child.id, current)],
             "child", child, child.id.f, {}, "rejected")
    ELSE AStar_push_child(
             [e EXCEPT !.grid = (grid_position(child.state) :> child.id) @@ @,
                       !.parent_map = AStar_parent_insert(@, child.id, current)], child)

\* the candidate child of current: skipped when its position has an entry at
\* least as good, else recorded as the best of its position, given its parent
\* and queued
AStar_update(e, current, child) ==
    IF grid_position(child.state) \in DOMAIN e.grid
       /\ e.grid[grid_position(child.state)].g <= child.id.g
    THEN Log(e, "child", child, child.id.f, {}, "rejected")
    ELSE AStar_push_child(
             [e EXCEPT !.grid = (grid_position(child.state) :> child.id) @@ @,
                       !.parent_map = AStar_parent_insert(@, child.id, current)], child)

\* variant: the identifier is taken before integrate is asked
AStar_step_control_counts_invalid(e, current, control) ==
    IF integrate(model, current.state, control) = NoState
    THEN [e EXCEPT !.id_counter = @ + 1]
    ELSE AStar_update([e EXCEPT !.id_counter = @ + 1], current,
             AStar_child(e.id_counter + 1, current, control,
                         integrate(model, current.state, control)))

\* the body of the loop of step for one sampled control
AStar_step_control(e, current, control) ==
    IF integrate(model, current.state, control) = NoState
    THEN e
    ELSE AStar_update([e EXCEPT !.id_counter = @ + 1], current,
             AStar_child(e.id_counter + 1, current, control,
                         integrate(model, current.state, control)))

RECURSIVE AStar_step_loop(_, _, _)
AStar_step_loop(e, current, i) ==
    IF i > Len(sample) \/ e.panicked THEN e
    ELSE AStar_step_loop(AStar_step_control(e, current, sample[i]), current, i + 1)

AStar_step(e, current) ==
    IF converge(current.state, goal)
    THEN [engine |-> e, done |-> TRUE]
    ELSE [engine |-> AStar_step_loop(e, current, 1), done |-> FALSE]

\* variant: the steps are returned as collected, from the goal back to the start
RECURSIVE AStar_unwind_loop_unreversed(_, _, _, _)
AStar_unwind_loop_unreversed(pm, current, c, res) ==
    LET p == AStar_parent_get(pm, current.id)
    IN  IF p = NoNode
        THEN [cost |-> c, trajectory |-> res]
        ELSE AStar_unwind_loop_unreversed(pm, p,
                 c + cost(model, current.state, current.control, p.state),
                 Append(res, <<p.state, p.control>>))

\* unwind_trajectory: follow the parents, charging model.cost(current, control, parent)
RECURSIVE AStar_unwind_loop(_, _, _, _)
AStar_unwind_loop(pm, current, c, res) ==
    LET p == AStar_parent_get(pm, current.id)
    IN  IF p = NoNode
        THEN [cost |-> c, trajectory |-> Reverse(res)]
        ELSE AStar_unwind_loop(pm, p,
                 c + cost(model, current.state, current.control, p.state),
                 Append(res, <<p.state, p.control>>))

AStar_unwind_trajectory(e, current) ==
    AStar_unwind_loop(e.parent_map, current, 0, <<<<current.state, current.control>>>>)

AStar_root == [id |-> AStar_Id_new(0, heuristic(model, start, goal), 0),
               state |-> start, control |-> DefaultControl]

\* the root queued under Default::default()
AStar_seed(e) ==
    Log([e EXCEPT !.queue = HeapPush(@, TRUE, 0, AStar_root)],
        "seed", AStar_root, 0, {}, "pushed")

\* step on the node that queue.pop() returned as p to the engine e
AStar_expand(e, p) ==
    AStar_step(Log([e EXCEPT !.queue = p.heap],
                   "pop", p.item[2], p.item[1], HeapNodes(e.queue), "popped"), p.item[2])

\* variant: the Final and Intermediate tags are swapped
AStar_partial_swapped(s, current) ==
    IF s.engine.panicked
    THEN [engine |-> s.engine, result |-> Panic, popped |-> <<current>>]
    ELSE IF ~s.done
    THEN [engine |-> s.engine, popped |-> <<current>>,
          result |-> Final(AStar_unwind_trajectory(s.engine, current))]
    ELSE [engine |-> s.engine, popped |-> <<current>>,
          result |-> Intermediate(AStar_unwind_trajectory(s.engine, current))]

\* what next_trajectory returns after step returned s for the node current
AStar_partial(s, current) ==
    IF s.engine.panicked
    THEN [engine |-> s.engine, result |-> Panic, popped |-> <<current>>]
    ELSE IF s.done
    THEN [engine |-> s.engine, popped |-> <<current>>,
          result |-> Final(AStar_unwind_trajectory(s.engine, current))]
    ELSE [engine |-> s.engine, popped |-> <<current>>,
          result |-> Intermediate(AStar_unwind_trajectory(s.engine, current))]

\* next_trajectory once the queue is seeded: p is what queue.pop() returned
AStar_next_popped(e, p) ==
    IF p.item = NoItem
    THEN [engine |-> [e EXCEPT !.queue = p.heap], result |-> Unreachable, popped |-> <<>>]
    ELSE AStar_partial(AStar_expand(e, p), p.item[2])

AStar_next_seeded(e) == AStar_next_popped(e, HeapPop(e.queue, TRUE))

AStar_next_trajectory(e) ==
    AStar_next_seeded(IF e.parent_map = <<>> /\ HeapIsEmpty(e.queue)
                      THEN AStar_seed(e) ELSE e)

RECURSIVE AStar_optimize_loop(_, _)
\* the loop of optimize after step returned s for the node current
AStar_optimize_stepped(s, current, pops) ==
    IF s.engine.panicked
    THEN [engine |-> s.engine, result |-> Panic, popped |-> Append(pops, current)]
    ELSE IF s.done
    THEN [engine |-> s.engine, popped |-> Append(pops, current),
          result |-> Final(AStar_unwind_trajectory(s.engine, current))]
    ELSE AStar_optimize_loop(s.engine, Append(pops, current))

\* the loop of optimize: p is what queue.pop() returned
AStar_optimize_popped(e, p, pops) ==
    IF p.item = NoItem
    THEN [engine |-> [e EXCEPT !.queue = p.heap], result |-> Unreachable, popped |-> pops]
    ELSE AStar_optimize_stepped(AStar_expand(e, p), p.item[2], pops)

AStar_optimize_loop(e, pops) == AStar_optimize_popped(e, HeapPop(e.queue, TRUE), pops)

\* variant: no early return when the start already converges
AStar_optimize_no_shortcut(e) ==
    AStar_optimize_loop(IF e.queue.top = NoKey THEN AStar_seed(e) ELSE e, <<>>)

\* variant: the root is pushed on every call
AStar_optimize_reseeds(e) ==
    IF converge(start, goal)
    THEN [engine |-> e, popped |-> <<>>,
          result |-> Final([cost |-> 0, trajectory |-> <<<<start, DefaultControl>>>>])]
    ELSE AStar_optimize_loop(AStar_seed(e), <<>>)

AStar_optimize(e) ==
    IF converge(start, goal)
    THEN [engine |-> e, popped |-> <<>>,
          result |-> Final([cost |-> 0, trajectory |-> <<<<start, DefaultControl>>>>])]
    ELSE AStar_optimize_loop(IF e.queue.top = NoKey THEN AStar_seed(e) ELSE e, <<>>)

(***************************************************************************)
(* Dijkstra (dijkstra.rs)                                                  *)
(***************************************************************************)
Dijkstra_Id_new(id, g) == [id |-> id, g |-> g]

\* impl PartialEq for Id: compares the integer id
Dijkstra_Id_eq(a, b) == a.id = b.id

\* parent_map.get / parent_map.insert with Id's Hash (id) and Eq (id)
Dijkstra_parent_get(pm, k) ==
    MapGet(pm, k, k.id \in DOMAIN pm /\ Dijkstra_Id_eq(pm[k.id].key, k))

Dijkstra_parent_insert(pm, k, v) ==
    MapInsert(pm, k, v, k.id \in DOMAIN pm /\ Dijkstra_Id_eq(pm[k.id].key, k))

Dijkstra_default == [queue |-> NewHeap, parent_map |-> <<>>, grid |-> <<>>,
                     id_counter |-> 0, panicked |-> FALSE, trace |-> <<>>]

\* the node step makes of the state child_state that control leads to from
\* current, under the identifier counter
Dijkstra_child(counter, current, control, child_state) ==
    [id |-> Dijkstra_Id_new(counter,
                current.id.g + cost(model, current.state, control, child_state)),
     state |-> child_state, control |-> control]

\* queue.push(child.id.g, child)
Dijkstra_push_child(e, child) ==
    IF PushPanics(e.queue, FALSE, child.id.g)
    THEN Log([e EXCEPT !.panicked = TRUE], "child", child, child.id.g, {}, "panic")
    ELSE Log([e EXCEPT !.queue = HeapPush(@, FALSE, child.id.g, child)],
             "child", child, child.id.g, {}, "pushed")

\* the candidate child of current: skipped when its position has an entry at
\* least as good, else recorded as the best of its position, given its parent
\* and queued
Dijkstra_update(e, current, child) ==
    IF grid_position(child.state) \in DOMAIN e.grid
       /\ e.grid[grid_position(child.state)].g <= child.id.g
    THEN Log(e, "child", child, child.id.g, {}, "rejected")
    ELSE Dijkstra_push_child(
             [e EXCEPT !.grid = (grid_position(child.state) :> child.id) @@ @,
                       !.parent_map = Dijkstra_parent_insert(@, child.id, current)], child)

\* the body of the loop of step for one sampled control
Dijkstra_step_control(e, current, control) ==
    IF integrate(model, current.state, control) = NoState
    THEN e
    ELSE Dijkstra_update([e EXCEPT !.id_counter = @ + 1], current,
             Dijkstra_child(e.id_counter + 1, current, control,
                            integrate(model, current.state, control)))

RECURSIVE Dijkstra_step_loop(_, _, _)
Dijkstra_step_loop(e, current, i) ==
    IF i > Len(sample) \/ e.panicked THEN e
    ELSE Dijkstra_step_loop(Dijkstra_step_control(e, current, sample[i]), current, i + 1)

Dijkstra_step(e, current) ==
    IF converge(current.state, goal)
    THEN [engine |-> e, done |-> TRUE]
    ELSE [engine |-> Dijkstra_step_loop(e, current, 1), done |-> FALSE]

\* variant: the cost counts the parents followed
RECURSIVE Dijkstra_unwind_loop_hops(_, _, _)
Dijkstra_unwind_loop_hops(pm, current, res) ==
    LET p == Dijkstra_parent_get(pm, current.id)
    IN  IF p = NoNode
        THEN [cost |-> Len(res) - 1, trajectory |-> res]
        ELSE Dijkstra_unwind_loop_hops(pm, p, Append(res, <<p.state, p.control>>))

\* unwind_trajectory: follow the parents; the cost is read from the node the walk ends on
RECURSIVE Dijkstra_unwind_loop(_, _, _)
Dijkstra_unwind_loop(pm, current, res) ==
    LET p == Dijkstra_parent_get(pm, current.id)
    IN  IF p = NoNode
        THEN [cost |-> current.id.g, trajectory |-> res]
        ELSE Dijkstra_unwind_loop(pm, p, Append(res, <<p.state, p.control>>))

Dijkstra_unwind_trajectory(e, current) ==
    Dijkstra_unwind_loop(e.parent_map, current, <<<<current.state, current.control>>>>)

Dijkstra_root == [id |-> Dijkstra_Id_new(0, 0), state |-> start, control |-> DefaultControl]

\* the root queued under Default::default()
Dijkstra_seed(e) ==
    Log([e EXCEPT !.queue = HeapPush(@, FALSE, 0, Dijkstra_root)],
        "seed", Dijkstra_root, 0, {}, "pushed")

\* step on the node that queue.pop() returned as p to the engine e
Dijkstra_expand(e, p) ==
    Dijkstra_step(Log([e EXCEPT !.queue = p.heap],
                      "pop", p.item[2], p.item[1], HeapNodes(e.queue), "popped"), p.item[2])

RECURSIVE Dijkstra_optimize_loop(_, _)
\* the loop of optimize after step returned s for the node current
Dijkstra_optimize_stepped(s, current, pops) ==
    IF s.engine.panicked
    THEN [engine |-> s.engine, result |-> Panic, popped |-> Append(pops, current)]
    ELSE IF s.done
    THEN [engine |-> s.engine, popped |-> Append(pops, current),
          result |-> Final(Dijkstra_unwind_trajectory(s.engine, current))]
    ELSE Dijkstra_optimize_loop(s.engine, Append(pops, current))

\* the loop of optimize: p is what queue.pop() returned
Dijkstra_optimize_popped(e, p, pops) ==
    IF p.item = NoItem
    THEN [engine |-> [e EXCEPT !.queue = p.heap], result |-> Unreachable, popped |-> pops]
    ELSE Dijkstra_optimize_stepped(Dijkstra_expand(e, p), p.item[2], pops)

Dijkstra_optimize_loop(e, pops) ==
    Dijkstra_optimize_popped(e, HeapPop(e.queue, FALSE), pops)

Dijkstra_optimize(e) ==
    IF converge(start, goal)
    THEN [engine |-> e, popped |-> <<>>,
          result |-> Final([cost |-> 0, trajectory |-> <<<<start, DefaultControl>>>>])]
    ELSE Dijkstra_optimize_loop(IF e.queue.top = NoKey THEN Dijkstra_seed(e) ELSE e, <<>>)

\* what next_trajectory returns after step returned s for the node current
Dijkstra_partial(s, current) ==
    IF s.engine.panicked
    THEN [engine |-> s.engine, result |-> Panic, popped |-> <<current>>]
    ELSE IF s.done
    THEN [engine |-> s.engine, popped |-> <<current>>,
          result |-> Final(Dijkstra_unwind_trajectory(s.engine, current))]
    ELSE [engine |-> s.engine, popped |-> <<current>>,
          result |-> Intermediate(Dijkstra_unwind_trajectory(s.engine, current))]

\* next_trajectory once the queue is seeded: p is what queue.pop() returned
Dijkstra_next_popped(e, p) ==
    IF p.item = NoItem
    THEN [engine |-> [e EXCEPT !.queue = p.heap], result |-> Unreachable, popped |-> <<>>]
    ELSE Dijkstra_partial(Dijkstra_expand(e, p), p.item[2])

Dijkstra_next_seeded(e) == Dijkstra_next_popped(e, HeapPop(e.queue, FALSE))

Dijkstra_next_trajectory(e) ==
    Dijkstra_next_seeded(IF e.parent_map = <<>> /\ HeapIsEmpty(e.queue)
                         THEN Dijkstra_seed(e) ELSE e)

(***************************************************************************)
(* The state machine: one engine, called by its owner                      *)
(***************************************************************************)
\* the engine as a call finds it: its fields and an empty log
Engine == [queue |-> queue, parent_map |-> parent_map, grid |-> grid,
           id_counter |-> id_counter, panicked |-> panicked, trace |-> <<>>]

\* the identifiers of the nodes a call created
Created(t) == {t[i].node.id.id : i \in {j \in DOMAIN t : t[j].op \in {"seed", "child"}}}

\* no library function is being called
NoInput == [fn |-> "none"]
NoOutput == [kind |-> "none"]

\* a newly constructed engine that no call has reached yet
Constructed ==
    /\ queue = NewHeap
    /\ parent_map = <<>>
    /\ grid = <<>>
    /\ id_counter = 0
    /\ panicked = FALSE
    /\ call = "new"
    /\ result = NoResult
    /\ popped = <<>>
    /\ trace = <<>>
    /\ given = {}
    /\ calls = 0
    /\ stepping = TRUE
    /\ clears = 0
    /\ twin = Engine
    /\ twinResult = NoResult
    /\ peer = AStar_new
    /\ peerResult = NoResult

Init ==
    /\ algo \in {"astar", "dijkstra"}
    /\ model \in Models
    /\ algo = "dijkstra" => model.heur = ZeroHeur
    /\ start = 0
    /\ goal \in Cells
    /\ Constructed
    /\ input = NoInput
    /\ output = NoOutput

\* the engine fields and the bookkeeping after a search call returned r (the
\* twin returned t, read only when the twin differs from the engine: an equal
\* twin returns what the engine returns; the peer returned p)
Returned(name, r, t, p) ==
    /\ queue' = r.engine.queue
    /\ parent_map' = r.engine.parent_map
    /\ grid' = r.engine.grid
    /\ id_counter' = r.engine.id_counter
    /\ panicked' = r.engine.panicked
    /\ call' = name
    /\ result' = r.result
    /\ popped' = r.popped
    /\ trace' = r.engine.trace
    /\ given' = given \cup Created(r.engine.trace)
    /\ calls' = IF calls < CallCap THEN calls + 1 ELSE calls
    /\ stepping' = (stepping /\ name = "next_trajectory" /\ result.kind # "Final")
    /\ twin' = [(IF twin = Engine THEN r ELSE t).engine EXCEPT !.trace = <<>>]
    /\ twinResult' = (IF twin = Engine THEN r ELSE t).result
    /\ peer' = [p.engine EXCEPT !.trace = <<>>]
    /\ peerResult' = p.result
    /\ UNCHANGED <<algo, model, start, goal, clears, input, output>>

\* the peer of an AStar engine is never called
Uncalled == [engine |-> peer, result |-> peerResult]

AStarNextTrajectory ==
    /\ algo = "astar" /\ ~panicked
    /\ Returned("next_trajectory", AStar_next_trajectory(Engine), AStar_next_trajectory(twin), Uncalled)

AStarOptimize ==
    /\ algo = "astar" /\ ~panicked
    /\ Returned("optimize", AStar_optimize(Engine), AStar_optimize(twin), Uncalled)

AStarClear ==
    /\ algo = "astar" /\ ~panicked
    /\ clears < MaxClears
    /\ LET e == AStar_clear(Engine)
       IN  /\ queue' = e.queue
           /\ parent_map' = e.parent_map
           /\ grid' = e.grid
           /\ id_counter' = e.id_counter
           /\ panicked' = e.panicked
    /\ call' = "clear"
    /\ result' = NoResult
    /\ popped' = <<>>
    /\ trace' = <<>>
    /\ calls' = 0
    /\ stepping' = TRUE
    /\ clears' = clears + 1
    /\ twin' = AStar_new
    /\ twinResult' = NoResult
    /\ UNCHANGED <<algo, model, start, goal, given, peer, peerResult, input, output>>

DijkstraNextTrajectory ==
    /\ algo = "dijkstra" /\ ~panicked
    /\ Returned("next_trajectory", Dijkstra_next_trajectory(Engine), Dijkstra_next_trajectory(twin),
                AStar_next_trajectory(peer))

DijkstraOptimize ==
    /\ algo = "dijkstra" /\ ~panicked
    /\ Returned("optimize", Dijkstra_optimize(Engine), Dijkstra_optimize(twin),
                AStar_optimize(peer))

Next ==
    \/ AStarNextTrajectory
    \/ AStarOptimize
    \/ AStarClear
    \/ DijkstraNextTrajectory
    \/ DijkstraOptimize

Spec == Init /\ [][Next]_vars

(***************************************************************************)
(* Reference computations                                                  *)
(***************************************************************************)
\* larger than the cost of any simple path of the grid
Infinity == (MaxStepCost + 1) * Cardinality(Cells) + 1

Min(S) == CHOOSE x \in S : \A y \in S : x <= y

\* exhaustive search: the least cost of a path of at most k valid transitions
\* from s to a converging state
RECURSIVE MinCostWithin(_, _)
MinCostWithin(s, k) ==
    IF converge(s, goal) THEN 0
    ELSE IF k = 0 THEN Infinity
    ELSE Min({Infinity} \cup
             {cost(model, s, sample[i], integrate(model, s, sample[i]))
                  + MinCostWithin(integrate(model, s, sample[i]), k - 1) :
              i \in {j \in DOMAIN sample : integrate(model, s, sample[j]) # NoState}})

TrueCost(s) == Min({Infinity, MinCostWithin(s, Cardinality(Cells))})

GoalReachable == TrueCost(start) < Infinity

\* never above the true remaining cost (never negative by its type)
Admissible ==
    \A s \in Cells : TrueCost(s) < Infinity => heuristic(model, s, goal) <= TrueCost(s)

\* the first search call on a newly constructed engine was optimize, and it has returned
FreshOptimize == call = "optimize" /\ calls = 1 /\ clears = 0

LastPopped == popped[Len(popped)]

(***************************************************************************)
(* Claims                                                                  *)
(***************************************************************************)

\* C1: with an admissible heuristic and a reachable goal, optimize on a fresh
\* AStar returns Final and the trajectory's cost is the true minimum path cost
C1_AStarOptimal ==
    (algo = "astar" /\ FreshOptimize /\ Admissible /\ GoalReachable)
        => (result.kind = "Final" /\ result.cost = TrueCost(start))

\* C2: with a reachable goal, optimize on a fresh Dijkstra returns Final for a
\* minimum-cost path from start to a converging state
C2_DijkstraOptimal ==
    (algo = "dijkstra" /\ FreshOptimize /\ GoalReachable)
        => /\ result.kind = "Final"
           /\ popped # <<>> => /\ converge(LastPopped.state, goal)
                               /\ LastPopped.id.g = TrueCost(start)

\* C3: when converge(start, goal) holds, optimize returns Final with cost zero
\* and the single step (start, default control), and leaves the frontier, the
\* best-cost map, the parent map and id_counter as they were
C3_TrivialGoal ==
    [][(call' = "optimize" /\ converge(start, goal))
          => /\ result' = Final([cost |-> 0, trajectory |-> <<<<start, DefaultControl>>>>])
             /\ UNCHANGED <<queue, parent_map, grid, id_counter>>]_vars

C3_Witness ==
    /\ call = "optimize" /\ converge(start, goal)
    /\ result.kind = "Final" /\ Len(result.trajectory) = 1
    /\ calls = 2 /\ queue.top # NoKey

\* C4: when no converging state is reachable from start, optimize on a fresh
\* engine returns Err(Unreachable)
C4_Unreachable ==
    (FreshOptimize /\ ~GoalReachable) => result.kind = "Unreachable"

\* C5: stepping a fresh engine with next_trajectory until it first returns
\* Final gives the cost that one optimize call on another fresh engine gives
C5_IncrementalEquivalence ==
    (stepping /\ clears = 0 /\ call = "next_trajectory" /\ result.kind = "Final")
        => LET o == IF algo = "astar" THEN AStar_optimize(AStar_new)
                    ELSE Dijkstra_optimize(Dijkstra_default)
           IN  o.result.kind = "Final" /\ o.result.cost = result.cost

C5_Witness ==
    /\ algo = "astar" /\ stepping /\ clears = 0
    /\ call = "next_trajectory" /\ result.kind = "Final"
    /\ result.cost > 0 /\ Len(result.trajectory) = 3

\* C6: when no converging state is reachable, repeated next_trajectory calls
\* on a fresh engine eventually return Err(Unreachable).  The engine is
\* deterministic, so a call that leaves the engine as it found it repeats
\* its answer for ever: such a call must already answer Err(Unreachable)
C6_IncrementalExhaustion ==
    [][(/\ call' = "next_trajectory" /\ stepping' /\ clears = 0
        /\ ~GoalReachable
        /\ UNCHANGED <<queue, parent_map, grid, id_counter>>)
          => result'.kind = "Unreachable"]_vars

AllEmpty(q, pm, gr) == HeapIsEmpty(q) /\ pm = <<>> /\ gr = <<>>

ClearEmptiesAll ==
    call' = "clear"
        => /\ AllEmpty(queue', parent_map', grid')
           /\ AStar_inspect_queue([queue |-> queue']) = {}
           /\ AStar_inspect_discovered([grid |-> grid']) = {}
           /\ id_counter' = id_counter

\* C7 as stated: clear leaves the three structures empty and id_counter
\* unchanged, and no operation empties one structure without the other two
C7_Original ==
    [][/\ ClearEmptiesAll
       /\ (\/ ~HeapIsEmpty(queue) /\ HeapIsEmpty(queue')
           \/ parent_map # <<>> /\ parent_map' = <<>>
           \/ grid # <<>> /\ grid' = <<>>)
              => AllEmpty(queue', parent_map', grid')]_vars

\* C7 amended: clear leaves the three structures empty and id_counter
\* unchanged, and no operation empties the best-cost map or the parent map
\* without emptying all three (the frontier alone also runs empty by pops)
C7_ClearedTogether ==
    [][/\ ClearEmptiesAll
       /\ (\/ parent_map # <<>> /\ parent_map' = <<>>
           \/ grid # <<>> /\ grid' = <<>>)
              => AllEmpty(queue', parent_map', grid')]_vars

C7_Witness ==
    /\ call = "clear" /\ id_counter > 0
    /\ AllEmpty(queue, parent_map, grid) /\ queue.top = NoKey

C9_StartToPopped ==
    result.kind \in {"Final", "Intermediate"}
        => /\ result.trajectory[1] = <<start, DefaultControl>>
           /\ result.trajectory[Len(result.trajectory)] =
                  IF popped = <<>> THEN <<start, DefaultControl>>
                  ELSE <<LastPopped.state, LastPopped.control>>

SearchCalls == {"next_trajectory", "optimize"}

\* C11: once a search call has returned Err(Unreachable), every later search
\* call returns Err(Unreachable) again, until clear (clear resets result)
C11_ExhaustedSink ==
    [][(result.kind = "Unreachable" /\ call' \in SearchCalls)
          => result'.kind = "Unreachable"]_vars

\* C12: once a search call has returned Final, no later search call returns
\* Intermediate or Err(Unreachable) and none pops a node, until clear
C12_TerminalSink ==
    [][(result.kind = "Final" /\ call' \in SearchCalls)
          => /\ result'.kind \notin {"Intermediate", "Unreachable"}
             /\ popped' = <<>>]_vars

\* the positions in the log of a call of the events of one kind
EventsOf(t, op) == {i \in DOMAIN t : t[i].op = op}

\* C13: the first search call on a fresh engine (new, or since clear) calls
\* model.init(start) exactly once, before it pops its first node
C13_InitOnce ==
    (calls = 1 /\ popped # <<>>)
        => /\ Cardinality(EventsOf(trace, "init")) = 1
           /\ \A i \in EventsOf(trace, "init"), j \in EventsOf(trace, "pop") : i < j

\* C14: every node AStar pops has the lowest estimated total cost f of the
\* nodes the frontier holds at that moment
C14_AStarMinFirst ==
    algo = "astar"
        => \A i \in EventsOf(trace, "pop") :
               \A n \in trace[i].frontier : trace[i].node.id.f <= n.id.f

C14_Witness ==
    /\ algo = "astar"
    /\ \E i \in EventsOf(trace, "pop") :
           \E n \in trace[i].frontier : trace[i].node.id.f < n.id.f

\* the node being expanded when the event at position i of the log happened
PoppedBefore(t, i) ==
    t[CHOOSE j \in EventsOf(t, "pop") :
          j < i /\ \A k \in EventsOf(t, "pop") : k < i => k <= j].node

\* C15: every node Dijkstra pops has the lowest accumulated cost g of the
\* nodes the frontier holds at that moment, and the frontier accepts every
\* child whose cost is greater than the cost of the node just popped
C15_DijkstraMinFirst ==
    algo = "dijkstra"
        => /\ \A i \in EventsOf(trace, "pop") :
                  \A n \in trace[i].frontier : trace[i].node.id.g <= n.id.g
           /\ \A i \in EventsOf(trace, "child") :
                  trace[i].node.id.g > PoppedBefore(trace, i).id.g
                      => trace[i].outcome # "panic"

\* the nodes the last call pushed to the frontier or expanded, and the nodes
\* earlier calls left in the frontier
Discovered ==
    {trace[i].node : i \in {j \in DOMAIN trace : trace[j].outcome \in {"pushed", "popped"}}}
        \cup HeapNodes(queue)

\* C16: after a call that expanded a node, the best-cost map has an entry for
\* the position of every node pushed or expanded, the start's included, with
\* a cost no greater than that node's (zero for the start position)
C16_BestCostCoverage ==
    popped # <<>>
        => /\ \A n \in Discovered :
                  /\ grid_position(n.state) \in DOMAIN grid
                  /\ grid[grid_position(n.state)].g <= n.id.g
           /\ grid_position(start) \in DOMAIN grid
           /\ grid[grid_position(start)].g = 0

\* C17: after a call the best-cost map records, for the position of every
\* child the call generated, a cost no greater than that child's; an entry
\* is never removed and is replaced only by an Id of strictly lower cost
C17_DedupCorrectness ==
    [][call' \in SearchCalls
          => /\ \A i \in EventsOf(trace', "child") :
                    LET n == trace'[i].node
                    IN  /\ grid_position(n.state) \in DOMAIN grid'
                        /\ grid'[grid_position(n.state)].g <= n.id.g
             /\ \A pos \in DOMAIN grid :
                    /\ pos \in DOMAIN grid'
                    /\ grid'[pos] # grid[pos] => grid'[pos].g < grid[pos].g]_vars

\* a call generated two children of one position, the cheaper one second,
\* and the map holds the second
C17_Witness ==
    \E i, j \in EventsOf(trace, "child") :
        /\ i < j
        /\ trace[i].node.state = trace[j].node.state
        /\ trace[i].outcome = "pushed" /\ trace[j].outcome = "pushed"
        /\ trace[j].node.id.g < trace[i].node.id.g
        /\ grid[grid_position(trace[j].node.state)] = trace[j].node.id

\* the frontier nodes of one position
OpenAt(pos) == {n \in HeapNodes(queue) : grid_position(n.state) = pos}

\* C18 as stated: the frontier holds at most one node per position, the one
\* whose Id the best-cost map records
C18_Original ==
    \A n \in HeapNodes(queue) :
        LET pos == grid_position(n.state)
        IN  /\ OpenAt(pos) = {n}
            /\ pos \in DOMAIN grid /\ grid[pos] = n.id

\* C18 amended: every frontier node's position is in the best-cost map with a
\* cost no greater than the node's, and at most one frontier node per
\* position carries the recorded Id (superseded nodes stay queued)
C18_OneBestOpen ==
    \A n \in HeapNodes(queue) :
        LET pos == grid_position(n.state)
        IN  /\ pos \in DOMAIN grid /\ grid[pos].g <= n.id.g
            /\ Cardinality({m \in OpenAt(pos) : m.id = grid[pos]}) <= 1

C18_Witness ==
    \E n, m \in HeapNodes(queue) :
        /\ n # m /\ grid_position(n.state) = grid_position(m.state)
        /\ grid[grid_position(n.state)] = n.id
        /\ n.id.g < m.id.g

\* the parent-map entries stored under the identifier of id
ParentEntries(pm, id) == {j \in DOMAIN pm : pm[j].key.id = id.id}

ParentOf(pm, id) ==
    IF algo = "astar" THEN AStar_parent_get(pm, id) ELSE Dijkstra_parent_get(pm, id)

HasOneParent(pm, id) ==
    Cardinality(ParentEntries(pm, id)) = 1 /\ ParentOf(pm, id) # NoNode

C20_IdsNeverReused ==
    [][/\ call' \in SearchCalls
              => /\ \A i \in EventsOf(trace', "seed") \cup EventsOf(trace', "child") :
                        /\ trace'[i].node.id.id \notin given
                        /\ \A j \in EventsOf(trace', "seed") \cup EventsOf(trace', "child") :
                               j # i => trace'[j].node.id.id # trace'[i].node.id.id
       /\ id_counter' >= id_counter]_vars

\* C21: the Dijkstra engine and the AStar engine with the zero heuristic
\* return, call by call for the same calls of next_trajectory and optimize,
\* the same kind of result, the same steps in the same order and the same cost
C21_DijkstraIsZeroAStar ==
    (algo = "dijkstra" /\ call \in SearchCalls)
        => /\ result.kind = peerResult.kind
           /\ result.trajectory = peerResult.trajectory
           /\ result.cost = peerResult.cost

(***************************************************************************)
(* The scenario of a 5x5 grid without walls: every step costs 1, the       *)
(* heuristic is the Manhattan distance to the goal, the search starts in   *)
(* the corner (0, 0) and the goal is any cell                              *)
(***************************************************************************)
Abs(n) == IF n < 0 THEN -n ELSE n

ScenarioModel(g) ==
    [walls |-> {}, step |-> 1, rough |-> NoCell, side |-> 5,
     heur  |-> [c \in 0..24 |-> Abs((c % 5) - (g % 5)) + Abs((c \div 5) - (g \div 5))]]

ScenarioInit ==
    /\ algo = "astar"
    /\ start = 0
    /\ goal \in 0..24
    /\ model = ScenarioModel(goal)
    /\ Constructed
    /\ input = NoInput
    /\ output = NoOutput

ScenarioNext ==
    \/ AStarNextTrajectory
    \/ AStarOptimize

ScenarioSpec == ScenarioInit /\ [][ScenarioNext]_vars

\* C22: on the 5x5 grid without walls, with the Cardinal sampler, cost 1 per
\* step, the Manhattan heuristic, start (0, 0) and goal (4, 4), optimize of a
\* new AStar returns Final with cost 8 and 9 steps, the first at the start
C22_OpenGridScenario ==
    (algo = "astar" /\ model = ScenarioModel(24) /\ start = 0 /\ goal = 24 /\ FreshOptimize)
        => /\ result.kind = "Final"
           /\ result.cost = 8
           /\ Len(result.trajectory) = 9
           /\ result.trajectory[1][1] = start

C22_Witness ==
    /\ algo = "astar" /\ model = ScenarioModel(24) /\ start = 0 /\ goal = 24
    /\ FreshOptimize
    /\ result.kind = "Final"
    /\ result.trajectory[9][1] = goal

(***************************************************************************)
(* Library functions: Rect::transform (lib.rs), Map::flood_replace         *)
(* (map/mod.rs) and the heuristics of BenchModel (benches/astar.rs)        *)
(***************************************************************************)
\* the sides of the rectangles, maps and bench grids the functions are given
RectSide == 2
MapWidth == 3
BenchSide == 3

Position_new(x, y) == [x |-> x, y |-> y]

\* impl Add for Position (u32 sums; the positions here stay far below 2^32)
Position_add(a, b) == Position_new(a.x + b.x, a.y + b.y)

\* Option<Position>
None == [kind |-> "None"]
Some(v) == [kind |-> "Some", value |-> v]

\* Rect::transform
Rect_transform(rect, pos) ==
    IF pos.x > rect.w \/ pos.y > rect.h
    THEN None
    ELSE Some(Position_add(rect.pos, pos))

RectInputs ==
    [fn : {"transform"},
     rect : [pos : {Position_new(0, 0), Position_new(1, 2)}, w : 0..RectSide, h : 0..RectSide],
     pos : [x : 0..(RectSide + 1), y : 0..(RectSide + 1)]]

\* Tile::WALL, Tile::FLOOR, Tile::BLOCK
Tile_WALL == [explored |-> FALSE, blocked |-> TRUE, wall |-> TRUE]
Tile_FLOOR == [explored |-> FALSE, blocked |-> FALSE, wall |-> FALSE]
Tile_BLOCK == [explored |-> FALSE, blocked |-> TRUE, wall |-> FALSE]

\* the predicates the callers pass: Tile::is_wall, |tile| !tile.is_wall()
\* and Tile::is_blocking
Holds(predicate, tile) ==
    CASE predicate = "is_wall" -> tile.wall
      [] predicate = "not_wall" -> ~tile.wall
      [] predicate = "is_blocking" -> tile.blocked

\* Map::sub2ind
Map_sub2ind(map, x, y) == x + y * map.width

\* Result<usize, MapError>, next to the map the call leaves behind; a call
\* that panics returns nothing
Ok(size, map) == [kind |-> "Ok", size |-> size, map |-> map]
Err(e, map) == [kind |-> "Err", error |-> e, map |-> map]
Panicked == [kind |-> "Panic"]

\* Map::flood_replace.  The loop is `while queue.is_empty()` over a queue
\* (here pending) that starts as vec![(x, y)]: its body, which begins by
\* unwrapping queue.pop(), runs only on an empty queue
Map_flood_replace(map, x, y, predicate, replacement) ==
    IF Holds(predicate, replacement)
    THEN Err("InfiniteLoop", map)
    ELSE LET size == 0
             pending == <<<<x, y>>>>
         IN  IF pending = <<>>
             THEN Panicked
             ELSE Ok(size, map)

MapCells(map) == (0..(map.width - 1)) \X (0..(map.height - 1))

MapInputs ==
    [fn : {"flood_replace"},
     map : [width : {MapWidth}, height : {2},
            tiles : [0..(2 * MapWidth - 1) -> {Tile_WALL, Tile_FLOOR}]],
     x : 0..(MapWidth - 1), y : 0..1,
     predicate : {"is_wall", "not_wall"},
     replacement : {Tile_WALL, Tile_FLOOR}]

\* the eight Directions next to the Cardinal four
Direction_step_from(control, x, y) ==
    CASE control = "NorthEast" -> <<x + 1, y + 1>>
      [] control = "SouthEast" -> <<x + 1, y - 1>>
      [] control = "SouthWest" -> <<x - 1, y - 1>>
      [] control = "NorthWest" -> <<x - 1, y + 1>>
      [] OTHER -> step_from(control, x, y)

\* make_heuristic!: Diagonal and Manhattan
Diagonal(a, b) ==
    LET dx == Abs(a[1] - b[1])
        dy == Abs(a[2] - b[2])
    IN  2 * (dx + dy) - (IF dx <= dy THEN dx ELSE dy)

Manhattan(a, b) ==
    LET dx == Abs(a[1] - b[1])
        dy == Abs(a[2] - b[2])
    IN  2 * (dx + dy)

\* HeuristicModel::heuristic of BenchModel<H>
BenchModel_heuristic(H, c, n) ==
    CASE H = "Diagonal" -> Diagonal(c, n)
      [] H = "Manhattan" -> Manhattan(c, n)
      [] H = "Zero" -> 0

\* BenchModel::pos2ind
BenchModel_pos2ind(b, pos) == pos[1] + pos[2] * b.width

\* BenchModel::is_blocked: the tile at the index of pos is a wall, or there is
\* no such tile; a coordinate that stepped below zero wraps to 2^32 - 1, whose
\* index lies beyond every map
BenchModel_is_blocked(b, pos) ==
    \/ pos[1] < 0 \/ pos[2] < 0
    \/ BenchModel_pos2ind(b, pos) \notin DOMAIN b.map
    \/ b.map[BenchModel_pos2ind(b, pos)] = "W"

\* BenchModel::integrate
BenchModel_integrate(b, previous, control) ==
    LET next == Direction_step_from(control, previous[1], previous[2])
    IN  IF ~BenchModel_is_blocked(b, next) THEN Some(next) ELSE None

\* BenchModel::cost
BenchModel_cost(action) ==
    IF action \in {"NorthEast", "NorthWest", "SouthEast", "SouthWest"} THEN 3 ELSE 2

\* BenchModel::converge: adjacent to the goal, or on it
BenchModel_converge(current, g) ==
    Abs(current[1] - g[1]) <= 1 /\ Abs(current[2] - g[2]) <= 1

\* Sampler::sample of Cardinal and of Octile
Cardinal == <<"North", "South", "East", "West">>
Octile == <<"North", "NorthWest", "West", "SouthWest", "South", "SouthEast", "East", "NorthEast">>

Sampled(sampler) == IF sampler = "Octile" THEN Octile ELSE Cardinal

\* the benchmarks titled admissible: full_octile and full_cardinal
AdmissibleBenches == {<<"Octile", "Diagonal">>, <<"Cardinal", "Manhattan">>}

\* square maps without a wall or with one
BenchMaps ==
    {[width |-> BenchSide, height |-> BenchSide,
      map |-> [i \in 0..(BenchSide * BenchSide - 1) |-> IF i = w THEN "W" ELSE "O"]] :
        w \in -1..(BenchSide * BenchSide - 1)}

BenchInputs ==
    [fn : {"heuristic"},
     bench : BenchMaps,
     pair : AdmissibleBenches,
     state : (0..(BenchSide - 1)) \X (0..(BenchSide - 1)),
     goal : (0..(BenchSide - 1)) \X (0..(BenchSide - 1))]

LibInit ==
    /\ algo = "astar"
    /\ model \in {m \in Models : m.walls = {} /\ m.step = 0 /\ m.rough = NoCell /\ m.heur = ZeroHeur}
    /\ start = 0
    /\ goal = 0
    /\ Constructed
    /\ input \in RectInputs \cup MapInputs \cup BenchInputs
    /\ output = NoOutput

Called(out) ==
    /\ output = NoOutput
    /\ output' = out
    /\ UNCHANGED <<algo, model, start, goal, queue, parent_map, grid, id_counter,
                   panicked, call, result, popped, trace, given, calls, stepping,
                   clears, twin, twinResult, peer, peerResult, input>>

RectTransform ==
    /\ input.fn = "transform"
    /\ Called(Rect_transform(input.rect, input.pos))

MapFloodReplace ==
    /\ input.fn = "flood_replace"
    /\ Called(Map_flood_replace(input.map, input.x, input.y, input.predicate, input.replacement))

BenchHeuristic ==
    /\ input.fn = "heuristic"
    /\ Called([kind |-> "Cost", value |-> BenchModel_heuristic(input.pair[2], input.state, input.goal)])

LibNext ==
    \/ RectTransform
    \/ MapFloodReplace
    \/ BenchHeuristic

LibSpec == LibInit /\ [][LibNext]_vars

\* the positions a BenchModel state can take: those whose index has a tile
BenchPositions(b) ==
    {pos \in (0..(b.width * b.height - 1)) \X (0..(b.height - 1)) :
        BenchModel_pos2ind(b, pos) \in DOMAIN b.map}

\* the positions from which the controls of sampler lead to a state that
\* converges on g at a total cost of at most c
RECURSIVE BenchWithinCost(_, _, _, _)
BenchWithinCost(b, sampler, g, c) ==
    IF c < 0 THEN {}
    ELSE LET two == BenchWithinCost(b, sampler, g, c - 2)
             three == BenchWithinCost(b, sampler, g, c - 3)
         IN  {pos \in BenchPositions(b) :
                \/ BenchModel_converge(pos, g)
                \/ \E i \in DOMAIN Sampled(sampler) :
                      LET next == BenchModel_integrate(b, pos, Sampled(sampler)[i])
                      IN  /\ next # None
                          /\ next.value \in (IF BenchModel_cost(Sampled(sampler)[i]) = 2
                                             THEN two ELSE three)}

\* C23: the heuristics of the benchmarks titled admissible (Diagonal under
\* the Octile sampler, Manhattan under the Cardinal sampler) never exceed the
\* least cost from the state to a converging state: no converging state is
\* within a cost below the estimate
C23_BenchAdmissible ==
    (input.fn = "heuristic" /\ output # NoOutput)
        => input.state \notin
               BenchWithinCost(input.bench, input.pair[1], input.goal, output.value - 1)

\* the tiles connected to the tiles of S through tiles satisfying predicate
RECURSIVE Grow(_, _, _)
Grow(map, predicate, S) ==
    LET more == {c \in MapCells(map) :
                    /\ Holds(predicate, map.tiles[Map_sub2ind(map, c[1], c[2])])
                    /\ \E d \in S : Abs(c[1] - d[1]) <= 1 /\ Abs(c[2] - d[2]) <= 1}
    IN  IF more \subseteq S THEN S ELSE Grow(map, predicate, S \cup more)

Cluster(map, x, y, predicate) == Grow(map, predicate, {<<x, y>>})

\* C24: flood_replace from a tile that satisfies the predicate, with a
\* replacement that does not, returns Ok(n) where n is the number of tiles of
\* the cluster around (x, y), and has replaced every tile of that cluster
C24_FloodReplace ==
    (/\ input.fn = "flood_replace" /\ output # NoOutput
     /\ ~Holds(input.predicate, input.replacement)
     /\ Holds(input.predicate, input.map.tiles[Map_sub2ind(input.map, input.x, input.y)]))
        => LET cluster == Cluster(input.map, input.x, input.y, input.predicate)
           IN  /\ output.kind = "Ok"
               /\ output.size = Cardinality(cluster)
               /\ \A c \in cluster :
                     LET tile == output.map.tiles[Map_sub2ind(output.map, c[1], c[2])]
                     IN  tile = input.replacement /\ ~Holds(input.predicate, tile)

\* C25: transform returns None for a position outside the w-by-h area
\* (x >= w or y >= h) and Some(rect.pos + pos) for a position inside it
C25_RectTransform ==
    (input.fn = "transform" /\ output # NoOutput)
        => IF input.pos.x >= input.rect.w \/ input.pos.y >= input.rect.h
           THEN output = None
           ELSE output = Some(Position_add(input.rect.pos, input.pos))

\* C26: next_trajectory pushes the root only when no node has been popped
\* (the heap has no top yet) or discovered since the engine was created or
\* last cleared, so a run of next_trajectory calls pushes it at most once
C26_SeedOnce ==
    [][(call' = "next_trajectory" /\ EventsOf(trace', "seed") # {})
          => (queue.top = NoKey /\ grid = <<>> /\ parent_map = <<>>)]_vars

\* C27: optimize called with a start that does not converge and an empty
\* frontier (new, cleared or exhausted) pushes the root before it expands
C27_OptimizeSeedsEmpty ==
    [][(call' = "optimize" /\ ~converge(start, goal) /\ HeapIsEmpty(queue))
          => (trace' # <<>> /\ trace'[1].op = "seed")]_vars

\* C28: the root AStar queues has the start state, the default control, the
\* accumulated cost zero, and is queued with the key heuristic(start, goal)
C28_RootKey ==
    algo = "astar"
        => \A i \in EventsOf(trace, "seed") :
              /\ trace[i].node.state = start
              /\ trace[i].node.control = DefaultControl
              /\ trace[i].node.id.g = 0
              /\ trace[i].key = heuristic(model, start, goal)

\* the body of the loop of step of the engine of this run
StepControl(e, current, control) ==
    IF algo = "astar"
    THEN AStar_step_control(e, current, control)
    ELSE Dijkstra_step_control(e, current, control)

\* the engine after step has gone through the first k sampled controls
RECURSIVE StepPrefix(_, _, _)
StepPrefix(e, current, k) ==
    IF k = 0 THEN e
    ELSE LET before == StepPrefix(e, current, k - 1)
         IN  IF before.panicked THEN before ELSE StepControl(before, current, sample[k])

\* the engine a next_trajectory call that finds nodes in the frontier has
\* when it begins to expand the node it popped
Expanding == [Engine EXCEPT !.queue = HeapPop(queue, algo = "astar").heap]
Expanded == HeapPop(queue, algo = "astar").item[2]

\* the candidate that control yields from current lands on a position whose
\* best-cost entry is no more expensive
Discarded(e, current, control) ==
    LET child_state == integrate(model, current.state, control)
    IN  /\ child_state # NoState
        /\ grid_position(child_state) \in DOMAIN e.grid
        /\ e.grid[grid_position(child_state)].g
              <= current.id.g + cost(model, current.state, control, child_state)

\* C29: while a node is expanded, a candidate whose position already has an
\* entry of lower or equal cost leaves the frontier, the best-cost map and
\* the parent map as they were; only id_counter advances (by one)
C29_DiscardFrame ==
    [][(call' = "next_trajectory" /\ ~HeapIsEmpty(queue)
          /\ ~converge(Expanded.state, goal))
          => \A k \in DOMAIN sample :
                LET before == StepPrefix(Expanding, Expanded, k - 1)
                    after == StepControl(before, Expanded, sample[k])
                IN  (~before.panicked /\ Discarded(before, Expanded, sample[k]))
                       => /\ after.queue = before.queue
                          /\ after.grid = before.grid
                          /\ after.parent_map = before.parent_map
                          /\ after.id_counter = before.id_counter + 1
                          /\ \E i \in EventsOf(trace', "child") :
                                /\ trace'[i].node.control = sample[k]
                                /\ trace'[i].outcome = "rejected"]_vars

C29_Witness ==
    /\ call = "next_trajectory"
    /\ algo = "astar"
    /\ result.kind = "Intermediate"
    /\ Cardinality(EventsOf(trace, "child")) = 2
    /\ \A i \in EventsOf(trace, "child") : trace[i].outcome = "rejected"
    /\ ~HeapIsEmpty(queue)

\* the controls of sample that integrate accepts from state s, in order
ValidControls(s) ==
    LET Valid(control) == integrate(model, s, control) # NoState
    IN  SelectSeq(sample, Valid)

\* the controls of the candidates a next_trajectory call made, in order
TriedControls(t) ==
    LET IsChild(ev) == ev.op = "child"
        kids == SelectSeq(t, IsChild)
    IN  [i \in DOMAIN kids |-> kids[i].node.control]

\* C30: a control for which integrate returns None takes no identifier and
\* changes nothing, the controls after it are still tried, and the call does
\* not fail: next_trajectory on a node without any valid control returns
\* Intermediate
C30_InvalidSkipped ==
    [][(call' = "next_trajectory" /\ popped' # <<>> /\ ~panicked'
          /\ ~converge(popped'[1].state, goal))
          => LET valid == ValidControls(popped'[1].state)
             IN  /\ TriedControls(trace') = valid
                 /\ id_counter' = id_counter + Len(valid)
                 /\ result'.kind = "Intermediate"
                 /\ valid = <<>>
                       => /\ grid' = grid
                          /\ parent_map' = parent_map
                          /\ HeapNodes(queue') = HeapNodes(queue) \ {popped'[1]}
                 /\ ~HeapIsEmpty(queue)
                       => \A k \in DOMAIN sample :
                             LET before == StepPrefix(Expanding, Expanded, k - 1)
                             IN  (/\ ~before.panicked
                                  /\ integrate(model, Expanded.state, sample[k]) = NoState)
                                    => StepControl(before, Expanded, sample[k]) = before]_vars

C30_Witness ==
    /\ call = "next_trajectory"
    /\ popped # <<>>
    /\ ~converge(popped[1].state, goal)
    /\ ValidControls(popped[1].state) = <<>>
    /\ result.kind = "Intermediate"

\* a next_trajectory call popped a node and left it unexpanded: the sampler
\* gave no candidate, no identifier was taken, the maps are as they were and
\* the frontier lost the popped node only (a root seeded by the call aside)
PoppedUnexpanded ==
    /\ EventsOf(trace', "child") = {}
    /\ id_counter' = id_counter
    /\ grid' = grid
    /\ parent_map' = parent_map
    /\ HeapNodes(queue') =
           (HeapNodes(queue) \cup {trace'[i].node : i \in EventsOf(trace', "seed")})
               \ {popped'[1]}

\* the trajectory a next_trajectory call returned leads from the start to
\* the node the call popped
ToPopped ==
    /\ result'.trajectory[1] = <<start, DefaultControl>>
    /\ result'.trajectory[Len(result'.trajectory)] = <<popped'[1].state, popped'[1].control>>

\* C31: next_trajectory returns Final exactly when the node it popped
\* converges, and then leaves the node unexpanded; when the node does not
\* converge it returns Intermediate with the trajectory to that node
\* (stated for the heuristics the Model contract admits, the admissible ones)
C31_GoalTestAtPop ==
    [][(call' = "next_trajectory" /\ algo = "astar" /\ Admissible /\ popped' # <<>>)
          => /\ result'.kind = "Final" <=> converge(popped'[1].state, goal)
             /\ converge(popped'[1].state, goal) => PoppedUnexpanded
             /\ ~converge(popped'[1].state, goal)
                   => (result'.kind = "Intermediate" /\ ToPopped)]_vars

\* C32: the cost of a trajectory AStar returns is the accumulated cost g
\* stored in the node just popped, the sum over the edges of the path of
\* cost(parent.state, control, child.state) as charged in step
C32_AStarCost ==
    (algo = "astar" /\ result.kind \in {"Final", "Intermediate"} /\ popped # <<>>)
        => result.cost = LastPopped.id.g

\* optimize on a newly constructed engine of the kind of this run
FreshOptimized ==
    IF algo = "astar" THEN AStar_optimize(AStar_new) ELSE Dijkstra_optimize(Dijkstra_default)

\* the last n entries of the sequence s
Suffix(s, n) == SubSeq(s, Len(s) - n + 1, Len(s))

\* state, control and accumulated cost of the nodes of a sequence
Visited(nodes) ==
    [i \in DOMAIN nodes |-> <<nodes[i].state, nodes[i].control, nodes[i].id.g>>]

\* the optimize call that has just returned pushed no root, popped on from
\* the frontier it found, and ends as the optimize call o on a fresh engine:
\* its pops are the last pops of o, its result kind and cost are those of o
ResumesAs(o) ==
    /\ EventsOf(trace', "seed") = {}
    /\ popped' # <<>> => popped'[1] \in HeapNodes(queue)
    /\ \A i \in DOMAIN popped' :
          popped'[i] \in HeapNodes(queue) \/ popped'[i].id.id \in Created(trace')
    /\ Len(popped') <= Len(o.popped)
    /\ Visited(popped') = Suffix(Visited(o.popped), Len(popped'))
    /\ result'.kind = o.result.kind
    /\ result'.cost = o.result.cost

\* C33: optimize called after next_trajectory calls that returned
\* Intermediate pushes no root, pops on from the frontier those calls left
\* (its pops are the last pops of optimize on a fresh engine) and returns
\* the result kind and the cost that optimize on a fresh engine returns
C33_Resumable ==
    [][(/\ stepping /\ call = "next_trajectory" /\ result.kind = "Intermediate"
        /\ call' = "optimize")
          => ResumesAs(FreshOptimized)]_vars

C33_Witness ==
    /\ algo = "astar" /\ clears = 0
    /\ call = "optimize" /\ calls = 2
    /\ EventsOf(trace, "seed") = {}
    /\ result.kind = "Final"
    /\ popped # <<>>
    /\ popped = Tail(FreshOptimized.popped)
    /\ queue = FreshOptimized.engine.queue
    /\ id_counter = FreshOptimized.engine.id_counter
    /\ result = FreshOptimized.result

\* C34: with an admissible heuristic (costs are never negative) no child is
\* pushed with an estimated total cost f that the frontier refuses as lower
\* than the f it popped last, so no AStar call aborts on the heap's assertion
C34_MonotoneFrontier ==
    (algo = "astar" /\ Admissible)
        => /\ ~panicked
           /\ \A i \in EventsOf(trace, "child") : trace[i].outcome # "panic"

\* the positions in the log t of the children that were pushed
Pushes(t) == {i \in EventsOf(t, "child") : t[i].outcome = "pushed"}

\* C35: every optimize call of AStar ends by returning Final or
\* Err(Unreachable), and of the children it pushes for one position each has
\* a strictly lower accumulated cost than the one pushed before it
\* (stated for the heuristics the Model contract admits, the admissible ones)
C35_Termination ==
    (call = "optimize" /\ algo = "astar" /\ Admissible)
        => /\ result.kind \in {"Final", "Unreachable"}
           /\ \A i, j \in Pushes(trace) :
                 (i < j /\ grid_position(trace[i].node.state) = grid_position(trace[j].node.state))
                     => trace[j].node.id.g < trace[i].node.id.g

\* the identifier the walk of unwind_trajectory from the node of id ends on
\* when it ends within fuel lookups, else NoNode
RECURSIVE ChainEnd(_, _, _)
ChainEnd(pm, id, fuel) ==
    IF ParentOf(pm, id) = NoNode THEN id
    ELSE IF fuel = 0 THEN NoNode
    ELSE ChainEnd(pm, ParentOf(pm, id).id, fuel - 1)

\* the nodes an engine knows: queued, just popped, or recorded as a parent
KnownNodes ==
    HeapNodes(queue) \cup {popped[i] : i \in DOMAIN popped}
        \cup {parent_map[k].value : k \in DOMAIN parent_map}

HeldIds ==
    {n.id : n \in KnownNodes}
        \cup {parent_map[k].key : k \in DOMAIN parent_map}
        \cup {grid[pos] : pos \in DOMAIN grid}

\* impl PartialEq for Id of the engine of this run
Id_eq(a, b) == IF algo = "astar" THEN AStar_Id_eq(a, b) ELSE Dijkstra_Id_eq(a, b)

\* C38: two Ids compare equal exactly when their integer ids are equal, so
\* a lookup in the parent map finds for an Id no entry but the one stored
\* under its own id
C38_IdentityIsId ==
    /\ \A a, b \in HeldIds : Id_eq(a, b) <=> a.id = b.id
    /\ \A a \in HeldIds :
          ParentOf(parent_map, a) # NoNode
              => (a.id \in DOMAIN parent_map /\ ParentOf(parent_map, a) = parent_map[a.id].value)

====
